---- MODULE Spec2Model ----
(***************************************************************************)
(* Model of Mayo's settings registry (src/base/settings.cpp) and of the    *)
(* property <-> variant conversion (src/base/property_value_conversion,    *)
(* second half of src/base/property_builtins.cpp).                         *)
(*                                                                         *)
(* Text (QByteArray, QString, std::string) is a sequence of one-character  *)
(* strings, so that identifiers, paths and quantity texts are built and    *)
(* taken apart the way the code does it.                                   *)
(***************************************************************************)
EXTENDS Integers, Sequences, FiniteSets, TLC

VARIABLES m_vecGroup, m_vecSectionResetFn, value, store, lastCall, nCalls

vars == <<m_vecGroup, m_vecSectionResetFn, value, store, lastCall, nCalls>>

(***************************************************************************)
(* Bounds of the model                                                     *)
(***************************************************************************)
\* Spec: groups, sections added to the default ones, settings
MaxGroups == 2
MaxSections == 1
MaxSettings == 2
\* SpecPersist
PersistSections == 1
PersistSettings == 2
\* SpecReset
ResetSections == 1
MaxResetFns == 2
\* SpecConv
MaxConversions == 1

BestEffortSettings == 3

MaxRestores == 2

LookupSections == 2
LookupSettings == 2

FrameSections == 1
FrameSettings == 2
FrameResetFns == 1

(***************************************************************************)
(* Text helpers                                                            *)
(***************************************************************************)
Null == "nullptr"

Digits == <<"0", "1", "2", "3", "4", "5", "6", "7", "8", "9">>

HexDigits == <<"0", "1", "2", "3", "4", "5", "6", "7", "8", "9", "a", "b", "c", "d", "e", "f">>

IsDigit(c) == \E i \in 1..Len(Digits) : Digits[i] = c

DigitValue(c) == (CHOOSE i \in 1..Len(Digits) : Digits[i] = c) - 1

IsHexDigit(c) == \E i \in 1..Len(HexDigits) : HexDigits[i] = c

HexValue(c) == (CHOOSE i \in 1..Len(HexDigits) : HexDigits[i] = c) - 1

IsSpace(c) == c = " "

RECURSIVE NumberToText(_)
NumberToText(n) ==
    IF n < 10 THEN <<Digits[n + 1]>>
    ELSE NumberToText(n \div 10) \o <<Digits[(n % 10) + 1]>>

RECURSIVE DigitsToNumber(_)
DigitsToNumber(s) ==
    IF s = <<>> THEN 0
    ELSE 10 * DigitsToNumber(SubSeq(s, 1, Len(s) - 1)) + DigitValue(s[Len(s)])

AllDigits(s) == s # <<>> /\ \A i \in 1..Len(s) : IsDigit(s[i])

\* Length of the longest prefix of s made of digits (what std::stod consumes).
RECURSIVE NumberPrefixLen(_)
NumberPrefixLen(s) ==
    IF s = <<>> \/ ~IsDigit(Head(s)) THEN 0 ELSE 1 + NumberPrefixLen(Tail(s))

\* QByteArray::simplified(): whitespace stripped at both ends, inner runs of
\* whitespace replaced by one space.
RECURSIVE SkipSpaces(_)
SkipSpaces(s) == IF s # <<>> /\ IsSpace(Head(s)) THEN SkipSpaces(Tail(s)) ELSE s

RECURSIVE CollapseSpaces(_)
CollapseSpaces(s) ==
    IF s = <<>> THEN <<>>
    ELSE IF ~IsSpace(Head(s)) THEN <<Head(s)>> \o CollapseSpaces(Tail(s))
    ELSE LET r == SkipSpaces(s) IN
         IF r = <<>> THEN <<>> ELSE <<" ">> \o CollapseSpaces(r)

simplified(s) == CollapseSpaces(SkipSpaces(s))

isValidIdentifier(identifier) == identifier # <<>> /\ simplified(identifier) # <<>>

(***************************************************************************)
(* Properties.  A property is an object created outside the registry; the  *)
(* model has a fixed population of them, one or two of each kind the       *)
(* converter dispatches on.  name is the key of the property's TextId.     *)
(***************************************************************************)
AllProps ==
    { "pBool", "pInt", "pDouble", "pCheck", "pBytes", "pStr", "pList",
      "pDate", "pPnt", "pTrsf", "pColor", "pEnum", "pLen", "pAng" }

PropKind(p) ==
    CASE p = "pBool" -> "PropertyBool"
      [] p = "pInt" -> "PropertyInt"
      [] p = "pDouble" -> "PropertyDouble"
      [] p = "pCheck" -> "PropertyCheckState"
      [] p = "pBytes" -> "PropertyQByteArray"
      [] p = "pStr" -> "PropertyQString"
      [] p = "pList" -> "PropertyQStringList"
      [] p = "pDate" -> "PropertyQDateTime"
      [] p = "pPnt" -> "PropertyOccPnt"
      [] p = "pTrsf" -> "PropertyOccTrsf"
      [] p = "pColor" -> "PropertyOccColor"
      [] p = "pEnum" -> "PropertyEnumeration"
      [] p \in {"pLen", "pAng"} -> "BasePropertyQuantity"

isType(kind, p) == PropKind(p) = kind

\* property->name().key; pInt and pEnum are owned by different property groups
\* and carry the same key there (as "format" or "precision" do in the
\* repository's reader and writer groups).
PropName(p) ==
    CASE p = "pBool" -> <<"b">>
      [] p \in {"pInt", "pEnum"} -> <<"n">>
      [] p = "pDouble" -> <<"d">>
      [] p = "pCheck" -> <<"c">>
      [] p = "pBytes" -> <<"y">>
      [] p = "pStr" -> <<"s">>
      [] p = "pList" -> <<"l">>
      [] p = "pDate" -> <<"t">>
      [] p = "pPnt" -> <<"p">>
      [] p = "pTrsf" -> <<"r">>
      [] p = "pColor" -> <<"o">>
      [] p = "pLen" -> <<"q">>
      [] p = "pAng" -> <<"a">>

\* BasePropertyQuantity::quantityUnit()
quantityUnit(p) == IF p = "pLen" THEN "Length" ELSE "Angle"

\* PropertyEnumeration::enumeration(): the items (value, name) of pEnum, the
\* transformation formats of the glTF writer with their prefix chopped.
enumeration(p) ==
    << [value |-> 0, name |-> <<"C">>],
       [value |-> 1, name |-> <<"M", "4">>],
       [value |-> 2, name |-> <<"T">>] >>

\* Enumeration::findItem(name): a pointer to the first item carrying the name,
\* or nullptr.
NullItem == [isNull |-> TRUE, value |-> 0, name |-> <<>>]

findItem(enum, name) ==
    IF \E i \in 1..Len(enum) : enum[i].name = name
    THEN LET item == enum[CHOOSE i \in 1..Len(enum) :
                            /\ enum[i].name = name
                            /\ \A j \in 1..(i - 1) : enum[j].name # name]
         IN  [isNull |-> FALSE, value |-> item.value, name |-> item.name]
    ELSE NullItem

\* PropertyEnumeration::name(): the name of the item whose value is the current
\* one (empty when no item has it).
EnumName(enum, v) ==
    IF \E i \in 1..Len(enum) : enum[i].value = v
    THEN enum[CHOOSE i \in 1..Len(enum) :
                 /\ enum[i].value = v
                 /\ \A j \in 1..(i - 1) : enum[j].value # v].name
    ELSE <<>>

\* Property::setValueHelper asks the owner group isPropertyValid(prop) about the
\* new value and restores the previous one when the answer is no.  The
\* integer property is bounded by its owner; the others accept any value.
IntUpperBound == 2

isPropertyValid(p, v) ==
    IF isType("PropertyInt", p) THEN v >= 0 /\ v <= IntUpperBound ELSE TRUE

\* setValue(v): [ok, value] with value the property's value afterwards.
setValue(p, cur, v) ==
    IF isPropertyValid(p, v) THEN [ok |-> TRUE, value |-> v]
    ELSE [ok |-> FALSE, value |-> cur]

(***************************************************************************)
(* QVariant: a tagged value.  The tag t says which of the fields b (bool), *)
(* n (number), s (text), l (list of texts), d (date-time) holds the value. *)
(***************************************************************************)
InvalidDateTime == [isValid |-> FALSE, secs |-> 0]

InvalidVariant ==
    [t |-> "Invalid", b |-> FALSE, n |-> 0, s |-> <<>>, l |-> <<>>, d |-> InvalidDateTime]

VBool(b) == [InvalidVariant EXCEPT !.t = "Bool", !.b = b]

VInt(n) == [InvalidVariant EXCEPT !.t = "Int", !.n = n]

VDouble(n) == [InvalidVariant EXCEPT !.t = "Double", !.n = n]

VBytes(s) == [InvalidVariant EXCEPT !.t = "ByteArray", !.s = s]

VString(s) == [InvalidVariant EXCEPT !.t = "String", !.s = s]

VStringList(l) == [InvalidVariant EXCEPT !.t = "StringList", !.l = l]

VDateTime(d) == [InvalidVariant EXCEPT !.t = "DateTime", !.d = d]

IsText(variant) == variant.t \in {"String", "ByteArray"}

IsNumber(variant) == variant.t \in {"Int", "Double"}

TextTrue == <<"t", "r", "u", "e">>

TextFalse == <<"f", "a", "l", "s", "e">>

\* QVariant::toBool()
toBool(variant) ==
    CASE variant.t = "Bool" -> variant.b
      [] IsNumber(variant) -> variant.n # 0
      [] IsText(variant) -> ~(variant.s \in {<<>>, <<"0">>, TextFalse})
      [] OTHER -> FALSE

\* QVariant::toInt() and toDouble() (the model's doubles are whole numbers)
toInt(variant) ==
    CASE variant.t = "Bool" -> IF variant.b THEN 1 ELSE 0
      [] IsNumber(variant) -> variant.n
      [] IsText(variant) -> IF AllDigits(variant.s) THEN DigitsToNumber(variant.s) ELSE 0
      [] OTHER -> 0

toDouble(variant) == toInt(variant)

\* QVariant::toString() and toByteArray()
toString(variant) ==
    CASE variant.t = "Bool" -> IF variant.b THEN TextTrue ELSE TextFalse
      [] IsNumber(variant) -> NumberToText(variant.n)
      [] IsText(variant) -> variant.s
      [] OTHER -> <<>>

toByteArray(variant) == toString(variant)

\* QVariant::toStringList()
toStringList(variant) ==
    CASE variant.t = "StringList" -> variant.l
      [] variant.t = "Invalid" -> <<>>
      [] variant.t = "DateTime" -> <<>>
      [] OTHER -> <<toString(variant)>>

\* QVariant::toDateTime()
toDateTime(variant) ==
    IF variant.t = "DateTime" THEN variant.d ELSE InvalidDateTime

(***************************************************************************)
(* Unit system (unit_system.cpp) and colour text (tkernel_utils.cpp)       *)
(***************************************************************************)
\* The table of unit symbols: symbol, unit and factor to the internal unit
\* (millimetre for lengths, radian for angles).
UnitTable ==
    << [str |-> <<"m", "m">>, unit |-> "Length", factor |-> 1],
       [str |-> <<"c", "m">>, unit |-> "Length", factor |-> 10],
       [str |-> <<"r", "a", "d">>, unit |-> "Angle", factor |-> 1] >>

\* A default-constructed TranslateResult: strUnit is nullptr.
NullTranslateResult == [value |-> 0, strUnitIsNull |-> TRUE, strUnit |-> <<>>, factor |-> 0]

\* UnitSystem::parseQuantity(text, &unit): the number std::stod reads at the
\* front, then the unit symbol.  No symbol: unit None, factor 1.  No number or
\* an unknown symbol: the null result.  The unit found is returned with it.
parseQuantity(strQty) ==
    LET n == NumberPrefixLen(strQty)
        sym == SubSeq(strQty, n + 1, Len(strQty))
        v == DigitsToNumber(SubSeq(strQty, 1, n))
    IN  IF n = 0 THEN [trRes |-> NullTranslateResult, unit |-> "None"]
        ELSE IF sym = <<>>
        THEN [trRes |-> [value |-> v, strUnitIsNull |-> FALSE, strUnit |-> <<>>, factor |-> 1],
              unit |-> "None"]
        ELSE IF \E i \in 1..Len(UnitTable) : UnitTable[i].str = sym
        THEN LET u == UnitTable[CHOOSE i \in 1..Len(UnitTable) : UnitTable[i].str = sym]
             IN  [trRes |-> [value |-> v, strUnitIsNull |-> FALSE, strUnit |-> u.str,
                            factor |-> u.factor],
                  unit |-> u.unit]
        ELSE [trRes |-> NullTranslateResult, unit |-> "None"]

\* UnitSystem::translate(SI, value, unit): the value with the symbol of the
\* internal unit of its dimension.
translate(qty, unit) ==
    IF unit = "Length"
    THEN [value |-> qty, strUnitIsNull |-> FALSE, strUnit |-> <<"m", "m">>, factor |-> 1]
    ELSE [value |-> qty, strUnitIsNull |-> FALSE, strUnit |-> <<"r", "a", "d">>, factor |-> 1]

qFuzzyIsNull(d) == d = 0

\* A colour is <<red, green, blue>>, each channel counted in steps of 1/510, so
\* that 510 is full intensity and the 8-bit levels are the even numbers.
ChannelToByte(c) == c \div 2

ByteToChannel(b) == 2 * b

ByteToHex(b) == <<HexDigits[(b \div 16) + 1], HexDigits[(b % 16) + 1]>>

\* TKernelUtils::colorToHex: "#RRGGBB", each channel cut down to 8 bits.
colorToHex(color) ==
    <<"#">> \o ByteToHex(ChannelToByte(color[1]))
            \o ByteToHex(ChannelToByte(color[2]))
            \o ByteToHex(ChannelToByte(color[3]))

\* TKernelUtils::colorFromHex: [ok, color]; fails unless the text is '#' and
\* six hexadecimal digits.
colorFromHex(strHex) ==
    IF /\ Len(strHex) = 7
       /\ strHex[1] = "#"
       /\ \A i \in 2..7 : IsHexDigit(strHex[i])
    THEN [ok |-> TRUE,
          color |-> << ByteToChannel(16 * HexValue(strHex[2]) + HexValue(strHex[3])),
                       ByteToChannel(16 * HexValue(strHex[4]) + HexValue(strHex[5])),
                       ByteToChannel(16 * HexValue(strHex[6]) + HexValue(strHex[7])) >>]
    ELSE [ok |-> FALSE, color |-> <<0, 0, 0>>]

(***************************************************************************)
(* PropertyValueConversion                                                 *)
(***************************************************************************)
\* toVariant emitting the integer of an enumeration property, not its name.
toVariant_EnumAsInteger(p, cur) ==
    CASE isType("PropertyBool", p) -> VBool(cur)
      [] isType("PropertyInt", p) -> VInt(cur)
      [] isType("PropertyDouble", p) -> VDouble(cur)
      [] isType("PropertyQByteArray", p) -> VBytes(cur)
      [] isType("PropertyQString", p) -> VString(cur)
      [] isType("PropertyQStringList", p) -> VStringList(cur)
      [] isType("PropertyQDateTime", p) -> VDateTime(cur)
      [] isType("PropertyOccColor", p) -> VString(colorToHex(cur))
      [] isType("PropertyEnumeration", p) -> VInt(cur)
      [] isType("BasePropertyQuantity", p) ->
            LET trRes == translate(cur, quantityUnit(p))
            IN  VString(NumberToText(trRes.value * trRes.factor) \o trRes.strUnit)
      [] OTHER -> InvalidVariant

\* toVariant(prop), cur the property's value.
toVariant(p, cur) ==
    CASE isType("PropertyBool", p) -> VBool(cur)
      [] isType("PropertyInt", p) -> VInt(cur)
      [] isType("PropertyDouble", p) -> VDouble(cur)
      [] isType("PropertyCheckState", p) -> InvalidVariant
      [] isType("PropertyQByteArray", p) -> VBytes(cur)
      [] isType("PropertyQString", p) -> VString(cur)
      [] isType("PropertyQStringList", p) -> VStringList(cur)
      [] isType("PropertyQDateTime", p) -> VDateTime(cur)
      [] isType("PropertyOccPnt", p) -> InvalidVariant
      [] isType("PropertyOccTrsf", p) -> InvalidVariant
      [] isType("PropertyOccColor", p) -> VString(colorToHex(cur))
      [] isType("PropertyEnumeration", p) -> VString(EnumName(enumeration(p), cur))
      [] isType("BasePropertyQuantity", p) ->
            LET trRes == translate(cur, quantityUnit(p))
            IN  VString(NumberToText(trRes.value * trRes.factor) \o trRes.strUnit)
      [] OTHER -> InvalidVariant

\* The lambda fnError: logs and returns false; the property is not touched.
fnError(cur) == [ok |-> FALSE, value |-> cur]

\* The enumeration branch falling back on the first item for an unknown name.
FromVariantEnumeration_FallsBack(p, cur, variant) ==
    LET name == toByteArray(variant)
        ptrItem == findItem(enumeration(p), name)
    IN  IF ptrItem.isNull THEN setValue(p, cur, enumeration(p)[1].value)
        ELSE setValue(p, cur, ptrItem.value)

FromVariantEnumeration(p, cur, variant) ==
    LET name == toByteArray(variant)
        ptrItem == findItem(enumeration(p), name)
    IN  IF ptrItem.isNull THEN fnError(cur)
        ELSE setValue(p, cur, ptrItem.value)

\* The quantity branch without the comparison of units.
FromVariantQuantity_NoUnitCheck(p, cur, variant) ==
    LET parsed == parseQuantity(toString(variant))
        trRes == parsed.trRes
    IN  IF trRes.strUnitIsNull \/ qFuzzyIsNull(trRes.factor) THEN fnError(cur)
        ELSE setValue(p, cur, trRes.value * trRes.factor)

FromVariantQuantity(p, cur, variant) ==
    LET parsed == parseQuantity(toString(variant))
        trRes == parsed.trRes
        unit == parsed.unit
    IN  IF trRes.strUnitIsNull \/ qFuzzyIsNull(trRes.factor) THEN fnError(cur)
        ELSE IF unit # "None" /\ unit # quantityUnit(p) THEN fnError(cur)
        ELSE setValue(p, cur, trRes.value * trRes.factor)

\* The colour branch storing the colour it parsed into before it checks the
\* result of the parse.
FromVariantColor_StoresFirst(p, cur, variant) ==
    LET res == colorFromHex(toString(variant))
    IN  IF ~res.ok THEN [ok |-> FALSE, value |-> res.color]
        ELSE setValue(p, cur, res.color)

FromVariantColor(p, cur, variant) ==
    LET res == colorFromHex(toString(variant))
    IN  IF ~res.ok THEN fnError(cur) ELSE setValue(p, cur, res.color)

\* fromVariant(prop, variant) for a non-null prop whose value is cur:
\* [ok, value], ok what the function returns and value the property's value
\* afterwards.
fromVariant(p, cur, variant) ==
    CASE isType("PropertyBool", p) -> setValue(p, cur, toBool(variant))
      [] isType("PropertyInt", p) -> setValue(p, cur, toInt(variant))
      [] isType("PropertyDouble", p) -> setValue(p, cur, toDouble(variant))
      [] isType("PropertyCheckState", p) -> fnError(cur)
      [] isType("PropertyQByteArray", p) -> setValue(p, cur, toByteArray(variant))
      [] isType("PropertyQString", p) -> setValue(p, cur, toString(variant))
      [] isType("PropertyQStringList", p) -> setValue(p, cur, toStringList(variant))
      [] isType("PropertyQDateTime", p) -> setValue(p, cur, toDateTime(variant))
      [] isType("PropertyOccPnt", p) -> fnError(cur)
      [] isType("PropertyOccTrsf", p) -> fnError(cur)
      [] isType("PropertyOccColor", p) -> FromVariantColor(p, cur, variant)
      [] isType("PropertyEnumeration", p) -> FromVariantEnumeration(p, cur, variant)
      [] isType("BasePropertyQuantity", p) -> FromVariantQuantity(p, cur, variant)
      [] OTHER -> [ok |-> FALSE, value |-> cur]

(***************************************************************************)
(* Settings registry: the tree m_vecGroup -> vecSection -> vecSetting      *)
(***************************************************************************)
\* A default-constructed TextId: no translation context, empty key.
EmptyTextId == [trContext |-> <<>>, key |-> <<>>]

TextIdOf(context, key) == [trContext |-> context, key |-> key]

\* MAYO_TEXT_ID("Mayo::Settings", "DEFAULT")
DefaultSectionTextId ==
    TextIdOf(<<"M">>, <<"D", "E", "F", "A", "U", "L", "T">>)

\* Settings_Section{}: value-initialised, isDefault is false.
EmptySection == [identifier |-> EmptyTextId, isDefault |-> FALSE, vecSetting |-> <<>>]

GroupIndexIsValid(vec, index) == index >= 0 /\ index < Len(vec)

SectionIndexIsValid(vec, index) ==
    /\ GroupIndexIsValid(vec, index.group)
    /\ index.section >= 0
    /\ index.section < Len(vec[index.group + 1].vecSection)

InsertFront(seq, x) == <<x>> \o seq

\* Private::group(index) and Private::section(index); vector::at throws
\* std::out_of_range for an index that is not valid.
group(vec, index) == vec[index + 1]

section(vec, index) == vec[index.group + 1].vecSection[index.section + 1]


\* addGroup without the search for a group that already has the identifier.
addGroup_NoLookup(vec, identifier) ==
    LET defaultSection == [EmptySection EXCEPT !.isDefault = TRUE]
        newGroup == [identifier |-> TextIdOf(<<>>, identifier),
                     vecSection |-> <<defaultSection>>]
    IN  [vecGroup |-> Append(vec, newGroup), index |-> Len(vec)]

\* addSection that puts the new section in front of the others.
addSection_InFront(vec, index, identifier) ==
    LET newSection == [EmptySection EXCEPT !.identifier = TextIdOf(<<>>, identifier)]
        vecSection == InsertFront(vec[index + 1].vecSection, newSection)
    IN  [vecGroup |-> [vec EXCEPT ![index + 1].vecSection = vecSection],
         index |-> [group |-> index, section |-> 0]]

\* addGroup whose search compares the whole TextId, context included, with
\* the one it would store.
addGroup_ComparesTextId(vec, identifier) ==
    IF \E i \in 1..Len(vec) : vec[i].identifier = TextIdOf(<<>>, identifier)
    THEN [vecGroup |-> vec,
          index |-> (CHOOSE i \in 1..Len(vec) :
                        /\ vec[i].identifier = TextIdOf(<<>>, identifier)
                        /\ \A j \in 1..(i - 1) :
                              vec[j].identifier # TextIdOf(<<>>, identifier)) - 1]
    ELSE LET defaultSection == [EmptySection EXCEPT !.isDefault = TRUE]
             newGroup == [identifier |-> TextIdOf(<<>>, identifier),
                          vecSection |-> <<defaultSection>>]
         IN  [vecGroup |-> Append(vec, newGroup), index |-> Len(vec)]

\* addGroup(QByteArray): [vecGroup, index].
addGroup(vec, identifier) ==
    IF \E i \in 1..Len(vec) : vec[i].identifier.key = identifier
    THEN [vecGroup |-> vec,
          index |-> (CHOOSE i \in 1..Len(vec) :
                        /\ vec[i].identifier.key = identifier
                        /\ \A j \in 1..(i - 1) : vec[j].identifier.key # identifier) - 1]
    ELSE LET defaultSection == [EmptySection EXCEPT !.isDefault = TRUE]
             newGroup == [identifier |-> TextIdOf(<<>>, identifier),
                          vecSection |-> <<defaultSection>>]
         IN  [vecGroup |-> Append(vec, newGroup), index |-> Len(vec)]

\* addGroup(TextId)
addGroupTextId(vec, identifier) ==
    LET r == addGroup(vec, identifier.key)
    IN  [vecGroup |-> [r.vecGroup EXCEPT ![r.index + 1].identifier = identifier],
         index |-> r.index]

\* addSection(GroupIndex, QByteArray) for a valid group index:
\* [vecGroup, index].
addSection(vec, index, identifier) ==
    LET newSection == [EmptySection EXCEPT !.identifier = TextIdOf(<<>>, identifier)]
        g == group(vec, index)
        vecSection == Append(g.vecSection, newSection)
    IN  [vecGroup |-> [vec EXCEPT ![index + 1].vecSection = vecSection],
         index |-> [group |-> index, section |-> Len(vecSection) - 1]]

\* addSection(GroupIndex, TextId)
addSectionTextId(vec, index, identifier) ==
    LET r == addSection(vec, index, identifier.key)
    IN  [vecGroup |-> [r.vecGroup EXCEPT
                          ![index + 1].vecSection[r.index.section + 1].identifier = identifier],
         index |-> r.index]

\* addSetting(Property*, SectionIndex) for a valid section index:
\* [vecGroup, index].
addSetting(vec, property, index) ==
    LET vecSetting == Append(section(vec, index).vecSetting, property)
    IN  [vecGroup |-> [vec EXCEPT
                          ![index.group + 1].vecSection[index.section + 1].vecSetting = vecSetting],
         index |-> [group |-> index.group, section |-> index.section,
                    setting |-> Len(vecSetting) - 1]]

\* addSetting(Property*, GroupIndex) that takes the first section for one that
\* is not the default section.
addSettingToGroup_InsertsSection(vec, property, groupId) ==
    LET g == group(vec, groupId)
        sectionDefault == [EmptySection EXCEPT !.isDefault = TRUE]
        inserted == [vec EXCEPT ![groupId + 1].vecSection =
                                   InsertFront(g.vecSection, sectionDefault)]
    IN  addSetting(inserted, property, [group |-> groupId, section |-> 0])

\* addSetting(Property*, GroupIndex) for a valid group index: finds, creates or
\* inserts the default section, marks it default, then appends to it.
addSettingToGroup(vec, property, groupId) ==
    LET g == group(vec, groupId)
        located ==
            IF g.vecSection = <<>>
            THEN LET r == addSectionTextId(vec, groupId, DefaultSectionTextId)
                 IN  [vecGroup |-> r.vecGroup, pos |-> r.index.section]
            ELSE IF Head(g.vecSection).isDefault
            THEN [vecGroup |-> vec, pos |-> 0]
            ELSE [vecGroup |-> [vec EXCEPT ![groupId + 1].vecSection =
                                                 InsertFront(g.vecSection, EmptySection)],
                  pos |-> 0]
        marked == [located.vecGroup EXCEPT
                      ![groupId + 1].vecSection[located.pos + 1].isDefault = TRUE]
    IN  addSetting(marked, property, [group |-> groupId, section |-> located.pos])

Slash == <<"/">>

\* Private::sectionPath(group, section)
sectionPath(g, sec) == g.identifier.key \o Slash \o sec.identifier.key

\* The path loadPropertyFrom and saveAs build for a property under a section.
settingPath(secPath, p) == secPath \o Slash \o PropName(p)

RECURSIVE Flatten(_)
Flatten(seqs) == IF seqs = <<>> THEN <<>> ELSE Head(seqs) \o Flatten(Tail(seqs))

\* The settings of the tree in the order the nested loops of loadFrom, saveAs
\* and findProperty visit them, each with its position and its section's path.
SectionSettings(vec, gi, si) ==
    LET sec == vec[gi].vecSection[si]
    IN  [k \in 1..Len(sec.vecSetting) |->
            [property |-> sec.vecSetting[k],
             sectionPath |-> sectionPath(vec[gi], sec),
             index |-> [group |-> gi - 1, section |-> si - 1, setting |-> k - 1]]]

GroupSettings(vec, gi) ==
    Flatten([si \in 1..Len(vec[gi].vecSection) |-> SectionSettings(vec, gi, si)])

AllSettings(vec) == Flatten([gi \in 1..Len(vec) |-> GroupSettings(vec, gi)])

\* A default-constructed SettingIndex: what findProperty returns for a property
\* that no setting references.
InvalidSettingIndex == [group |-> -1, section |-> -1, setting |-> -1]

SettingIndexIsValid(vec, index) ==
    /\ SectionIndexIsValid(vec, [group |-> index.group, section |-> index.section])
    /\ index.setting >= 0
    /\ index.setting < Len(vec[index.group + 1].vecSection[index.section + 1].vecSetting)

\* property(SettingIndex) for a valid index; the two at() throw
\* std::out_of_range for any other.
propertyAt(vec, index) ==
    section(vec, [group |-> index.group, section |-> index.section])
        .vecSetting[index.setting + 1]

\* findProperty that keeps scanning and returns the last match.
findProperty_LastMatch(vec, property) ==
    LET all == AllSettings(vec)
    IN  IF \E k \in 1..Len(all) : all[k].property = property
        THEN all[CHOOSE k \in 1..Len(all) :
                    /\ all[k].property = property
                    /\ \A j \in (k + 1)..Len(all) : all[j].property # property].index
        ELSE InvalidSettingIndex

\* findProperty(property): the index of the first setting, in the order of the
\* three nested loops, whose property is the one given.
findProperty(vec, property) ==
    LET all == AllSettings(vec)
    IN  IF \E k \in 1..Len(all) : all[k].property = property
        THEN all[CHOOSE k \in 1..Len(all) :
                    /\ all[k].property = property
                    /\ \A j \in 1..(k - 1) : all[j].property # property].index
        ELSE InvalidSettingIndex

(***************************************************************************)
(* Persistence.  The store (a QSettings) maps the paths it contains to     *)
(* variants.  An exclude predicate is the set of properties it matches; a  *)
(* default-constructed std::function is not callable.                      *)
(***************************************************************************)
NoPredicate == [callable |-> FALSE, matches |-> {}]

Predicate(props) == [callable |-> TRUE, matches |-> props]

\* The test of saveAs and loadFrom with the predicate left out.
NotExcluded_Always(fnExclude, p) == TRUE

\* !fnExclude || !fnExclude(*property)
NotExcluded(fnExclude, p) == ~fnExclude.callable \/ ~(p \in fnExclude.matches)

\* QSettings::setValue(path, variant)
StoreSetValue(st, path, variant) ==
    [q \in (DOMAIN st) \cup {path} |-> IF q = path THEN variant ELSE st[q]]

\* Private::loadPropertyFrom(source, sectionPath, property): the property
\* values afterwards.
loadPropertyFrom(source, secPath, p, val) ==
    IF p = Null THEN val
    ELSE LET path == settingPath(secPath, p)
         IN  IF path \in DOMAIN source
             THEN [val EXCEPT ![p] = fromVariant(p, val[p], source[path]).value]
             ELSE val

\* The loops of loadFrom leaving at the first setting whose conversion fails.
RECURSIVE LoadSettings_StopsAtFailure(_, _, _, _)
LoadSettings_StopsAtFailure(settings, source, fnExclude, val) ==
    IF settings = <<>> THEN val
    ELSE LET st == Head(settings)
             path == settingPath(st.sectionPath, st.property)
             tried == NotExcluded(fnExclude, st.property) /\ path \in DOMAIN source
         IN  IF tried /\ ~fromVariant(st.property, val[st.property], source[path]).ok
             THEN val
             ELSE LoadSettings_StopsAtFailure(
                      Tail(settings), source, fnExclude,
                      IF tried
                      THEN loadPropertyFrom(source, st.sectionPath, st.property, val)
                      ELSE val)

\* The loops of loadFrom over the settings still to visit.
RECURSIVE LoadSettings(_, _, _, _)
LoadSettings(settings, source, fnExclude, val) ==
    IF settings = <<>> THEN val
    ELSE LET st == Head(settings)
             next == IF NotExcluded(fnExclude, st.property)
                     THEN loadPropertyFrom(source, st.sectionPath, st.property, val)
                     ELSE val
         IN  LoadSettings(Tail(settings), source, fnExclude, next)

\* loadFrom that loads every setting, excluded or not.
loadFrom_NoExclude(vec, source, fnExclude, val) ==
    LoadSettings(AllSettings(vec), source, NoPredicate, val)

\* loadFrom(source, fnExclude): the property values afterwards.
loadFrom(vec, source, fnExclude, val) ==
    LoadSettings(AllSettings(vec), source, fnExclude, val)

\* loadPropertyFrom(source, SettingIndex) for a valid index: the property
\* values afterwards.
loadPropertyFromIndex(vec, source, index, val) ==
    LET prop == propertyAt(vec, index)
        sectionId == [group |-> index.group, section |-> index.section]
    IN  IF prop # Null
        THEN loadPropertyFrom(source, sectionPath(group(vec, index.group), section(vec, sectionId)),
                              prop, val)
        ELSE val

\* The loops of saveAs over the settings still to visit.
RECURSIVE SaveSettings(_, _, _, _)
SaveSettings(settings, target, fnExclude, val) ==
    IF settings = <<>> THEN target
    ELSE LET st == Head(settings)
             prop == st.property
             next == IF NotExcluded(fnExclude, prop)
                     THEN StoreSetValue(target, settingPath(st.sectionPath, prop),
                                        toVariant(prop, val[prop]))
                     ELSE target
         IN  SaveSettings(Tail(settings), next, fnExclude, val)

\* saveAs that clears the target before it writes the settings.
saveAs_ClearsTarget(vec, target, fnExclude, val) ==
    SaveSettings(AllSettings(vec), <<>>, fnExclude, val)

\* saveAs(target, fnExclude) for a non-null target: the store afterwards.
saveAs(vec, target, fnExclude, val) ==
    SaveSettings(AllSettings(vec), target, fnExclude, val)

(***************************************************************************)
(* Reset functions                                                         *)
(***************************************************************************)
\* addResetFunction(SectionIndex, fn): the vector afterwards.
addResetFunction(vecFn, index, fn) ==
    IF fn # Null THEN Append(vecFn, [sectionId |-> index, fnReset |-> fn]) ELSE vecFn

\* addResetFunction(GroupIndex, fn)
addResetFunctionToGroup(vecFn, index, fn) ==
    addResetFunction(vecFn, [group |-> index, section |-> 0], fn)

\* The functions a loop over m_vecSectionResetFn calls, in the order it calls
\* them, given the entries its condition lets through.
CallsOf(vecFn, selected) ==
    LET Pick[i \in 0..Len(vecFn)] ==
            IF i = 0 THEN <<>>
            ELSE IF i \in selected THEN Append(Pick[i - 1], vecFn[i].fnReset)
            ELSE Pick[i - 1]
    IN  Pick[Len(vecFn)]

resetAll(vecFn) == CallsOf(vecFn, 1..Len(vecFn))

\* resetGroup that takes the group for its default section.
resetGroup_DefaultSectionOnly(vecFn, index) ==
    CallsOf(vecFn, {i \in 1..Len(vecFn) :
                       vecFn[i].sectionId = [group |-> index, section |-> 0]})

resetGroup(vecFn, index) ==
    CallsOf(vecFn, {i \in 1..Len(vecFn) : vecFn[i].sectionId.group = index})

\* resetSection that takes the section for its whole group.
resetSection_WholeGroup(vecFn, index) ==
    CallsOf(vecFn, {i \in 1..Len(vecFn) : vecFn[i].sectionId.group = index.group})

resetSection(vecFn, index) ==
    CallsOf(vecFn, {i \in 1..Len(vecFn) : vecFn[i].sectionId = index})

(***************************************************************************)
(* The property group of the glTF writer: its five properties, as a record *)
(* of their values.                                                        *)
(***************************************************************************)
GltfProps ==
    {"coordinatesConverter", "transformationFormat", "format", "forceExportUV", "metaDatas"}

\* The values each property of the group can hold.
GltfValues ==
    [coordinatesConverter : {"Undefined", "posYfwd_posZup", "negZfwd_posYup"},
     transformationFormat : {"Compact", "Mat4", "TRS"},
     format : {"Json", "Binary"},
     forceExportUV : BOOLEAN,
     metaDatas : {<<>>, <<"author">>}]

\* A default-constructed OccGltfWriter::Parameters.
Parameters ==
    [coordinatesConverter |-> "Undefined", transformationFormat |-> "Compact",
     format |-> "Binary", forceExportUV |-> FALSE, metaDatas |-> <<>>]

\* restoreDefaults that leaves out the property format.
restoreDefaults_SkipsFormat(val) ==
    LET defaults == Parameters
    IN  [val EXCEPT !.coordinatesConverter = defaults.coordinatesConverter,
                    !.transformationFormat = defaults.transformationFormat,
                    !.forceExportUV = defaults.forceExportUV,
                    !.metaDatas = <<>>]

\* Properties::restoreDefaults(): the values afterwards.  Each setValue gets
\* a value of the property's enumeration (or a bool) and succeeds.
restoreDefaults(val) ==
    LET defaults == Parameters
    IN  [val EXCEPT !.coordinatesConverter = defaults.coordinatesConverter,
                    !.transformationFormat = defaults.transformationFormat,
                    !.format = defaults.format,
                    !.forceExportUV = defaults.forceExportUV,
                    !.metaDatas = <<>>]

(***************************************************************************)
(* Notifications.  A hook is what it does, in order: the calls it makes and *)
(* the signals it emits, each with its arguments.                          *)
(***************************************************************************)
Called(name, args) == [kind |-> "call", name |-> name, args |-> args]

Emitted(name, args) == [kind |-> "emit", name |-> name, args |-> args]

\* Settings::onPropertyChanged(prop)
onPropertyChanged(prop) ==
    << Called("PropertyGroup::onPropertyChanged", <<prop>>),
       Emitted("changed", <<prop>>) >>

\* onPropertyEnabled emitting the signal of onPropertyChanged.
onPropertyEnabled_EmitsChanged(prop, on) ==
    << Called("PropertyGroup::onPropertyEnabled", <<prop, on>>),
       Emitted("changed", <<prop>>) >>

\* Settings::onPropertyEnabled(prop, on)
onPropertyEnabled(prop, on) ==
    << Called("PropertyGroup::onPropertyEnabled", <<prop, on>>),
       Emitted("enabled", <<prop, on>>) >>

(***************************************************************************)
(* State machine.  lastCall records the operation that made the last step, *)
(* its arguments and what it returned.  A failed Expects() terminates the  *)
(* program (op "terminate"); an exception leaves the state as it was and   *)
(* is recorded in threw.                                                   *)
(***************************************************************************)
DefaultValue(p) ==
    CASE p = "pBool" -> FALSE
      [] p \in {"pInt", "pDouble", "pCheck", "pEnum", "pLen", "pAng"} -> 0
      [] p \in {"pBytes", "pStr", "pList"} -> <<>>
      [] p = "pDate" -> InvalidDateTime
      [] p = "pPnt" -> "origin"
      [] p = "pTrsf" -> "identity"
      [] p = "pColor" -> <<0, 0, 0>>

OtherValue(p) ==
    CASE p = "pBool" -> TRUE
      [] p \in {"pInt", "pCheck", "pAng"} -> 1
      [] p = "pEnum" -> 2
      [] p = "pDouble" -> 3
      [] p = "pLen" -> 25
      [] p = "pBytes" -> <<"x">>
      [] p = "pStr" -> <<"h", "i">>
      [] p = "pList" -> << <<"a">>, <<"b">> >>
      [] p = "pDate" -> [isValid |-> TRUE, secs |-> 5]
      [] p = "pPnt" -> "corner"
      [] p = "pTrsf" -> "mirror"
      [] p = "pColor" -> <<510, 255, 34>>

\* The properties the model registers as settings, and the values user code
\* gives them.
RegProps == {"pInt", "pEnum", "pCheck"}

GroupIdentifiers == {<<"g">>, <<"h">>, <<>>, <<" ">>}

GroupTextIds == {TextIdOf(<<"T">>, <<"g">>)}

SectionIdentifiers == {<<"s">>, <<" ", " ">>}

SectionTextIds == {TextIdOf(<<"T">>, <<"s">>)}

ExcludePredicates ==
    {NoPredicate, Predicate({"pInt"}), Predicate({"pEnum", "pCheck"})}

ResetFunctions == {"fnA", "fnB", Null}

Running == lastCall.op # "terminate"

Terminate ==
    /\ lastCall' = [op |-> "terminate"]
    /\ UNCHANGED <<m_vecGroup, m_vecSectionResetFn, value, store, nCalls>>

Threw(op) ==
    /\ lastCall' = [op |-> op, threw |-> TRUE]
    /\ UNCHANGED <<m_vecGroup, m_vecSectionResetFn, value, store, nCalls>>

AddedSections(vec) ==
    LET Count[i \in 0..Len(vec)] ==
            IF i = 0 THEN 0 ELSE Count[i - 1] + Len(vec[i].vecSection) - 1
    IN  Count[Len(vec)]

Init ==
    /\ m_vecGroup = <<>>
    /\ m_vecSectionResetFn = <<>>
    /\ value = [p \in AllProps |-> DefaultValue(p)]
    /\ store = <<>>
    /\ lastCall = [op |-> "construct"]
    /\ nCalls = 0

AddGroup(identifier) ==
    /\ Running
    /\ IF ~isValidIdentifier(identifier) THEN Terminate
       ELSE LET r == addGroup(m_vecGroup, identifier) IN
            /\ m_vecGroup' = r.vecGroup
            /\ lastCall' = [op |-> "addGroup", threw |-> FALSE, key |-> identifier,
                            ret |-> r.index]
            /\ UNCHANGED <<m_vecSectionResetFn, value, store, nCalls>>

AddGroupTextId(identifier) ==
    /\ Running
    /\ IF ~isValidIdentifier(identifier.key) THEN Terminate
       ELSE LET r == addGroupTextId(m_vecGroup, identifier) IN
            /\ m_vecGroup' = r.vecGroup
            /\ lastCall' = [op |-> "addGroup", threw |-> FALSE, key |-> identifier.key,
                            ret |-> r.index]
            /\ UNCHANGED <<m_vecSectionResetFn, value, store, nCalls>>

AddSection(index, identifier) ==
    /\ Running
    /\ IF ~isValidIdentifier(identifier) THEN Terminate
       ELSE IF ~GroupIndexIsValid(m_vecGroup, index) THEN Threw("addSection")
       ELSE LET r == addSection(m_vecGroup, index, identifier) IN
            /\ m_vecGroup' = r.vecGroup
            /\ lastCall' = [op |-> "addSection", threw |-> FALSE, group |-> index,
                            key |-> identifier, ret |-> r.index]
            /\ UNCHANGED <<m_vecSectionResetFn, value, store, nCalls>>

AddSectionTextId(index, identifier) ==
    /\ Running
    /\ IF ~isValidIdentifier(identifier.key) THEN Terminate
       ELSE IF ~GroupIndexIsValid(m_vecGroup, index) THEN Threw("addSection")
       ELSE LET r == addSectionTextId(m_vecGroup, index, identifier) IN
            /\ m_vecGroup' = r.vecGroup
            /\ lastCall' = [op |-> "addSection", threw |-> FALSE, group |-> index,
                            key |-> identifier.key, ret |-> r.index]
            /\ UNCHANGED <<m_vecSectionResetFn, value, store, nCalls>>

AddSettingToGroup(property, groupId) ==
    /\ Running
    /\ IF ~GroupIndexIsValid(m_vecGroup, groupId) THEN Threw("addSettingToGroup")
       ELSE LET r == addSettingToGroup(m_vecGroup, property, groupId) IN
            /\ m_vecGroup' = r.vecGroup
            /\ lastCall' = [op |-> "addSettingToGroup", threw |-> FALSE,
                            property |-> property, group |-> groupId, ret |-> r.index]
            /\ UNCHANGED <<m_vecSectionResetFn, value, store, nCalls>>

AddSetting(property, index) ==
    /\ Running
    /\ IF ~SectionIndexIsValid(m_vecGroup, index) THEN Threw("addSetting")
       ELSE LET r == addSetting(m_vecGroup, property, index) IN
            /\ m_vecGroup' = r.vecGroup
            /\ lastCall' = [op |-> "addSetting", threw |-> FALSE,
                            property |-> property, section |-> index, ret |-> r.index]
            /\ UNCHANGED <<m_vecSectionResetFn, value, store, nCalls>>

\* User code changes a property directly (Property::setValue).
SetPropertyValue(p, v) ==
    /\ Running
    /\ value' = [value EXCEPT ![p] = setValue(p, value[p], v).value]
    /\ lastCall' = [op |-> "setValue", threw |-> FALSE]
    /\ UNCHANGED <<m_vecGroup, m_vecSectionResetFn, store, nCalls>>

LoadFrom(fnExclude) ==
    /\ Running
    /\ value' = loadFrom(m_vecGroup, store, fnExclude, value)
    /\ lastCall' = [op |-> "loadFrom", threw |-> FALSE, fnExclude |-> fnExclude]
    /\ UNCHANGED <<m_vecGroup, m_vecSectionResetFn, store, nCalls>>

SaveAs(target, fnExclude) ==
    /\ Running
    /\ store' = IF target = Null THEN store
                ELSE saveAs(m_vecGroup, store, fnExclude, value)
    /\ lastCall' = [op |-> "saveAs", threw |-> FALSE, target |-> target,
                    fnExclude |-> fnExclude]
    /\ UNCHANGED <<m_vecGroup, m_vecSectionResetFn, value, nCalls>>

\* PropertyValueConversion::fromVariant(prop, variant), prop possibly null.
FromVariant(p, variant) ==
    /\ Running
    /\ nCalls < MaxConversions
    /\ nCalls' = nCalls + 1
    /\ IF p = Null
       THEN /\ value' = value
            /\ lastCall' = [op |-> "fromVariant", threw |-> FALSE, property |-> p,
                            variant |-> variant, ret |-> FALSE]
       ELSE LET r == fromVariant(p, value[p], variant) IN
            /\ value' = [value EXCEPT ![p] = r.value]
            /\ lastCall' = [op |-> "fromVariant", threw |-> FALSE, property |-> p,
                            variant |-> variant, ret |-> r.ok]
    /\ UNCHANGED <<m_vecGroup, m_vecSectionResetFn, store>>

AddResetFunctionToGroup(index, fn) ==
    /\ Running
    /\ m_vecSectionResetFn' = addResetFunctionToGroup(m_vecSectionResetFn, index, fn)
    /\ lastCall' = [op |-> "addResetFunction", threw |-> FALSE, overload |-> "GroupIndex",
                    group |-> index, section |-> 0, fn |-> fn]
    /\ UNCHANGED <<m_vecGroup, value, store, nCalls>>

AddResetFunction(index, fn) ==
    /\ Running
    /\ m_vecSectionResetFn' = addResetFunction(m_vecSectionResetFn, index, fn)
    /\ lastCall' = [op |-> "addResetFunction", threw |-> FALSE, overload |-> "SectionIndex",
                    group |-> index.group, section |-> index.section, fn |-> fn]
    /\ UNCHANGED <<m_vecGroup, value, store, nCalls>>

ResetAll ==
    /\ Running
    /\ lastCall' = [op |-> "resetAll", threw |-> FALSE,
                    calls |-> resetAll(m_vecSectionResetFn)]
    /\ UNCHANGED <<m_vecGroup, m_vecSectionResetFn, value, store, nCalls>>

ResetGroup(index) ==
    /\ Running
    /\ lastCall' = [op |-> "resetGroup", threw |-> FALSE, group |-> index,
                    calls |-> resetGroup(m_vecSectionResetFn, index)]
    /\ UNCHANGED <<m_vecGroup, m_vecSectionResetFn, value, store, nCalls>>

ResetSection(index) ==
    /\ Running
    /\ lastCall' = [op |-> "resetSection", threw |-> FALSE, section |-> index,
                    calls |-> resetSection(m_vecSectionResetFn, index)]
    /\ UNCHANGED <<m_vecGroup, m_vecSectionResetFn, value, store, nCalls>>

OnPropertyChanged(prop) ==
    /\ Running
    /\ lastCall' = [op |-> "onPropertyChanged", threw |-> FALSE, args |-> <<prop>>,
                    trace |-> onPropertyChanged(prop)]
    /\ UNCHANGED <<m_vecGroup, m_vecSectionResetFn, value, store, nCalls>>

OnPropertyEnabled(prop, on) ==
    /\ Running
    /\ lastCall' = [op |-> "onPropertyEnabled", threw |-> FALSE, args |-> <<prop, on>>,
                    trace |-> onPropertyEnabled(prop, on)]
    /\ UNCHANGED <<m_vecGroup, m_vecSectionResetFn, value, store, nCalls>>

\* User code changes a property of the glTF writer group.
GltfSetValue(p, v) ==
    /\ Running
    /\ value' = [value EXCEPT ![p] = v]
    /\ lastCall' = [op |-> "setValue", threw |-> FALSE]
    /\ UNCHANGED <<m_vecGroup, m_vecSectionResetFn, store, nCalls>>

RestoreDefaults ==
    /\ Running
    /\ nCalls < MaxRestores
    /\ nCalls' = nCalls + 1
    /\ value' = restoreDefaults(value)
    /\ lastCall' = [op |-> "restoreDefaults", threw |-> FALSE, before |-> value]
    /\ UNCHANGED <<m_vecGroup, m_vecSectionResetFn, store>>

FindProperty(property) ==
    /\ Running
    /\ lastCall' = [op |-> "findProperty", threw |-> FALSE, property |-> property,
                    ret |-> findProperty(m_vecGroup, property)]
    /\ UNCHANGED <<m_vecGroup, m_vecSectionResetFn, value, store, nCalls>>

\* property(SettingIndex)
PropertyAt(index) ==
    /\ Running
    /\ IF ~SettingIndexIsValid(m_vecGroup, index) THEN Threw("property")
       ELSE /\ lastCall' = [op |-> "property", threw |-> FALSE, index |-> index,
                            ret |-> propertyAt(m_vecGroup, index)]
            /\ UNCHANGED <<m_vecGroup, m_vecSectionResetFn, value, store, nCalls>>

\* loadPropertyFrom(source, SettingIndex)
LoadPropertyFrom(index) ==
    /\ Running
    /\ IF ~SettingIndexIsValid(m_vecGroup, index) THEN Threw("loadPropertyFrom")
       ELSE /\ value' = loadPropertyFromIndex(m_vecGroup, store, index, value)
            /\ lastCall' = [op |-> "loadPropertyFrom", threw |-> FALSE, index |-> index]
            /\ UNCHANGED <<m_vecGroup, m_vecSectionResetFn, store, nCalls>>

\* Arguments of the calls: every index a caller may hold, valid or not.
GroupIndexInputs == -1..Len(m_vecGroup)

SectionIndexInputs ==
    [group : 0..Len(m_vecGroup), section : 0..(AddedSections(m_vecGroup) + 1)]

ValidGroupIndexes == 0..(Len(m_vecGroup) - 1)

ValidSectionIndexes == {i \in SectionIndexInputs : SectionIndexIsValid(m_vecGroup, i)}

\* The index of every setting, the index one past the last setting of every
\* section, and the invalid index.
SettingIndexInputs ==
    {InvalidSettingIndex}
        \cup {[group |-> i.group, section |-> i.section, setting |-> k] :
                 i \in ValidSectionIndexes, k \in 0..Len(AllSettings(m_vecGroup))}

\* The step keeps the registry within the sizes given.
Within(groups, sections, settings, resetFns) ==
    /\ Len(m_vecGroup') <= groups
    /\ AddedSections(m_vecGroup') <= sections
    /\ Len(AllSettings(m_vecGroup')) <= settings
    /\ Len(m_vecSectionResetFn') <= resetFns

\* The structure of the registry, with every kind of argument.
TreeProps == {"pInt", "pEnum"}

NextTree ==
    \/ \E identifier \in GroupIdentifiers : AddGroup(identifier)
    \/ \E identifier \in GroupTextIds : AddGroupTextId(identifier)
    \/ \E index \in GroupIndexInputs, identifier \in SectionIdentifiers :
          AddSection(index, identifier)
    \/ \E index \in GroupIndexInputs, identifier \in SectionTextIds :
          AddSectionTextId(index, identifier)
    \/ \E p \in TreeProps, index \in GroupIndexInputs : AddSettingToGroup(p, index)
    \/ \E p \in TreeProps, index \in SectionIndexInputs : AddSetting(p, index)

Next == NextTree /\ Within(MaxGroups, MaxSections, MaxSettings, 0)

Spec == Init /\ [][Next]_vars

\* A registry of one group built by well-formed calls, loaded and saved.
NextBuild ==
    \/ AddGroup(<<"g">>)
    \/ \E index \in ValidGroupIndexes : AddSection(index, <<"s">>)
    \/ \E p \in RegProps, index \in ValidGroupIndexes : AddSettingToGroup(p, index)
    \/ \E p \in RegProps, index \in ValidSectionIndexes : AddSetting(p, index)

NextPersist ==
    \/ \E p \in {"pInt", "pEnum"} :
          \E v \in {DefaultValue(p), OtherValue(p)} : SetPropertyValue(p, v)
    \/ \E fnExclude \in ExcludePredicates : LoadFrom(fnExclude)
    \/ \E fnExclude \in ExcludePredicates : SaveAs("store", fnExclude)
    \/ SaveAs(Null, NoPredicate)

SpecPersist ==
    Init /\ [][(NextBuild \/ NextPersist)
                  /\ Within(1, PersistSections, PersistSettings, 0)]_vars

\* A registry of groups and sections with reset functions.
NextReset ==
    \/ \E identifier \in {<<"g">>, <<"h">>} : AddGroup(identifier)
    \/ \E index \in ValidGroupIndexes : AddSection(index, <<"s">>)
    \/ \E index \in 0..Len(m_vecGroup), fn \in ResetFunctions :
          AddResetFunctionToGroup(index, fn)
    \/ \E index \in ValidSectionIndexes, fn \in ResetFunctions :
          AddResetFunction(index, fn)
    \/ ResetAll
    \/ \E index \in 0..Len(m_vecGroup) : ResetGroup(index)
    \/ \E index \in ValidSectionIndexes : ResetSection(index)

SpecReset ==
    Init /\ [][NextReset /\ Within(2, ResetSections, 0, MaxResetFns)]_vars
\* The converter alone: properties with any of two sets of values, converted
\* from variants of every shape.
ConvVariants ==
    { InvalidVariant, VBool(TRUE), VBool(FALSE), VInt(0), VInt(1), VInt(3), VDouble(2),
      VBytes(<<"C">>), VString(<<>>), VString(<<"T">>), VString(<<"M", "4">>),
      VString(<<"X">>), VString(<<"7">>), VString(<<"2", "m", "m">>),
      VString(<<"3", "c", "m">>), VString(<<"1", "r", "a", "d">>),
      VString(<<"2", "x", "x">>), VString(<<"m", "m">>),
      VString(<<"#", "f", "f", "8", "0", "0", "0">>), VString(<<"#", "f", "f", "8", "0">>),
      VString(<<"f", "f", "8", "0", "0", "0", "0">>),
      VStringList(<< <<"a">> >>), VDateTime([isValid |-> TRUE, secs |-> 9]) }

InitConv ==
    /\ m_vecGroup = <<>>
    /\ m_vecSectionResetFn = <<>>
    /\ value \in {[p \in AllProps |-> DefaultValue(p)], [p \in AllProps |-> OtherValue(p)]}
    /\ store = <<>>
    /\ lastCall = [op |-> "construct"]
    /\ nCalls = 0

NextConv ==
    \/ \E p \in AllProps \cup {Null}, variant \in ConvVariants : FromVariant(p, variant)
    \/ \E p \in AllProps : FromVariant(p, toVariant(p, value[p]))
    \/ \E p \in TreeProps : OnPropertyChanged(p)
    \/ \E p \in TreeProps, on \in BOOLEAN : OnPropertyEnabled(p, on)

SpecConv == InitConv /\ [][NextConv]_vars

\* A registry of one group whose settings are looked up by property and by
\* index, with the index of a failed lookup among the arguments.
NextLookup ==
    \/ AddGroup(<<"g">>)
    \/ \E index \in ValidGroupIndexes : AddSection(index, <<"s">>)
    \/ \E p \in TreeProps, index \in ValidGroupIndexes : AddSettingToGroup(p, index)
    \/ \E p \in TreeProps, index \in ValidSectionIndexes : AddSetting(p, index)
    \/ SetPropertyValue("pInt", OtherValue("pInt"))
    \/ SaveAs("store", NoPredicate)
    \/ \E p \in TreeProps \cup {"pCheck", Null} : FindProperty(p)
    \/ \E index \in SettingIndexInputs : PropertyAt(index)
    \/ \E index \in SettingIndexInputs : LoadPropertyFrom(index)

SpecLookup ==
    Init /\ [][NextLookup /\ Within(1, LookupSections, LookupSettings, 0)]_vars

\* A group of settings of kinds that convert and of a kind that does not,
\* saved and loaded.
LoadProps == {"pInt", "pEnum", "pCheck", "pBool"}

NextLoad ==
    \/ AddGroup(<<"g">>)
    \/ \E p \in LoadProps, index \in ValidGroupIndexes : AddSettingToGroup(p, index)
    \/ \E p \in {"pInt", "pBool"} :
          \E v \in {DefaultValue(p), OtherValue(p)} : SetPropertyValue(p, v)
    \/ SaveAs("store", NoPredicate)
    \/ \E fnExclude \in {NoPredicate, Predicate({"pInt"})} : LoadFrom(fnExclude)

SpecLoad == Init /\ [][NextLoad /\ Within(1, 0, BestEffortSettings, 0)]_vars

\* A group with a reset function and settings of two properties, registered
\* or not, saved to a store or to none and loaded, with and without an
\* exclude predicate.
FrameProps == {"pInt", "pBool"}

NextFrame ==
    \/ AddGroup(<<"g">>)
    \/ \E index \in ValidGroupIndexes : AddSection(index, <<"s">>)
    \/ \E p \in FrameProps, index \in ValidSectionIndexes : AddSetting(p, index)
    \/ \E index \in ValidGroupIndexes : AddResetFunctionToGroup(index, "fnA")
    \/ \E p \in FrameProps :
          \E v \in {DefaultValue(p), OtherValue(p)} : SetPropertyValue(p, v)
    \/ \E fnExclude \in {NoPredicate, Predicate({"pInt"})} : LoadFrom(fnExclude)
    \/ \E fnExclude \in {NoPredicate, Predicate({"pInt"})} : SaveAs("store", fnExclude)
    \/ SaveAs(Null, NoPredicate)

SpecFrame ==
    Init /\ [][NextFrame /\ Within(1, FrameSections, FrameSettings, FrameResetFns)]_vars

\* The property group of the glTF writer alone, its properties holding any of
\* their values to begin with.
InitGltf ==
    /\ m_vecGroup = <<>>
    /\ m_vecSectionResetFn = <<>>
    /\ value \in GltfValues
    /\ store = <<>>
    /\ lastCall = [op |-> "construct"]
    /\ nCalls = 0

NextGltf ==
    \/ \E p \in GltfProps : \E v \in {val[p] : val \in GltfValues} : GltfSetValue(p, v)
    \/ RestoreDefaults

SpecGltf == InitGltf /\ [][NextGltf]_vars

(***************************************************************************)
(* Claims                                                                  *)
(***************************************************************************)
GroupsWithKey(vec, key) == {i \in 1..Len(vec) : vec[i].identifier.key = key}

\* C1: addGroup is idempotent by identifier.  A call of addGroup with a valid
\* identifier that a group already carries returns the index of that group and
\* leaves the number of groups as it was, and of two successive addGroup calls
\* with the same identifier the second returns what the first returned.
C1_AddGroupIdempotent ==
    [][lastCall'.op = "addGroup" =>
          /\ \A i \in GroupsWithKey(m_vecGroup, lastCall'.key) :
                /\ lastCall'.ret = i - 1
                /\ Len(m_vecGroup') = Len(m_vecGroup)
          /\ (lastCall.op = "addGroup" /\ lastCall.key = lastCall'.key)
                => lastCall'.ret = lastCall.ret]_vars

\* addGroup has returned the index of the first of two groups, in a registry
\* that holds a section and a setting besides.
C1_Witness ==
    /\ lastCall.op = "addGroup"
    /\ Len(m_vecGroup) = 2
    /\ lastCall.ret = 0
    /\ m_vecGroup[1].identifier.key = lastCall.key
    /\ AddedSections(m_vecGroup) > 0
    /\ AllSettings(m_vecGroup) # <<>>

\* C2: in every reachable state of the registry every group has at least one
\* section, and the section at position 0 is marked default.
C2_DefaultSectionFirst ==
    \A i \in 1..Len(m_vecGroup) :
        /\ Len(m_vecGroup[i].vecSection) >= 1
        /\ m_vecGroup[i].vecSection[1].isDefault

\* A group just created by addGroup, beside a group that has got a second
\* section and a setting since its creation.
C2_Witness ==
    /\ lastCall.op = "addGroup"
    /\ Len(m_vecGroup) = 2
    /\ lastCall.ret = 1
    /\ Len(m_vecGroup[1].vecSection) = 2
    /\ AllSettings(m_vecGroup) # <<>>

\* The settings of the registry as a set, and the path of each.
Settings == {AllSettings(m_vecGroup)[i] : i \in 1..Len(AllSettings(m_vecGroup))}

PathOf(st) == settingPath(st.sectionPath, st.property)

\* The exclude predicate fn is callable and answers true for property p.
Matched(fn, p) == fn.callable /\ p \in fn.matches

\* The kinds whose values the conversion gives back exactly.
RoundTripKinds ==
    { "PropertyBool", "PropertyInt", "PropertyDouble", "PropertyQByteArray",
      "PropertyQString", "PropertyEnumeration", "PropertyOccColor" }

\* C3: save/load round trip.  After saveAs(store) without exclusion, loadFrom
\* on a registry of the same structure whose properties are fresh gives every
\* registered property of a round-trippable kind the value it had at the save.
C3_SaveLoadRoundTrip ==
    (lastCall.op = "saveAs" /\ lastCall.target = "store" /\ ~lastCall.fnExclude.callable) =>
        LET fresh == [p \in AllProps |-> DefaultValue(p)]
            loaded == loadFrom(m_vecGroup, store, NoPredicate, fresh)
        IN  \A st \in Settings :
                PropKind(st.property) \in RoundTripKinds
                    => loaded[st.property] = value[st.property]

\* C4: fromVariant writes nothing unless it succeeds.  A property's value
\* differs after the call only if the call was for that property and returned
\* true; when it returns false, and always for a null property, no value has
\* changed.
C4_NoPartialWrite ==
    [][lastCall'.op = "fromVariant" =>
          /\ \A p \in AllProps :
                value'[p] # value[p] => (lastCall'.ret /\ lastCall'.property = p)
          /\ ~lastCall'.ret => value' = value
          /\ lastCall'.property = Null => (~lastCall'.ret /\ value' = value)]_vars

\* fromVariant has failed on a colour text that is not hexadecimal, for a
\* colour property that holds a colour other than the default.
C4_Witness ==
    /\ lastCall.op = "fromVariant"
    /\ lastCall.property = "pColor"
    /\ ~lastCall.ret
    /\ lastCall.variant.t = "String"
    /\ ~colorFromHex(lastCall.variant.s).ok
    /\ value["pColor"] = OtherValue("pColor")

\* C5: unit mismatch.  fromVariant on a quantity property, given a text whose
\* parsed unit is present and is not the property's unit (an angle text for a
\* length property), returns false and leaves the quantity as it was.
C5_UnitMismatchRejected ==
    [][(/\ lastCall'.op = "fromVariant"
        /\ lastCall'.property \in AllProps
        /\ isType("BasePropertyQuantity", lastCall'.property)
        /\ parseQuantity(toString(lastCall'.variant)).unit
              \notin {"None", quantityUnit(lastCall'.property)})
          => /\ ~lastCall'.ret
             /\ value'[lastCall'.property] = value[lastCall'.property]]_vars

\* fromVariant has returned false for the length property, holding 25, given
\* the angle text "1rad".
C5_Witness ==
    /\ lastCall.op = "fromVariant"
    /\ lastCall.property = "pLen"
    /\ quantityUnit("pLen") = "Length"
    /\ lastCall.variant = VString(<<"1", "r", "a", "d">>)
    /\ parseQuantity(toString(lastCall.variant)).unit = "Angle"
    /\ ~lastCall.ret
    /\ value["pLen"] = 25

\* C6: unknown enumeration symbol.  fromVariant on an enumeration property
\* returns false and leaves the value as it was when no item of the property's
\* enumeration has the name given; when an item has it, fromVariant returns
\* true and the value is the integer of that item.
C6_UnknownEnumSymbolRejected ==
    [][(/\ lastCall'.op = "fromVariant"
        /\ lastCall'.property \in AllProps
        /\ isType("PropertyEnumeration", lastCall'.property))
          => LET prop == lastCall'.property
                 name == toByteArray(lastCall'.variant)
                 items == enumeration(prop)
             IN  /\ (\A i \in 1..Len(items) : items[i].name # name)
                       => (~lastCall'.ret /\ value'[prop] = value[prop])
                 /\ \A i \in 1..Len(items) :
                       items[i].name = name
                           => (lastCall'.ret /\ value'[prop] = items[i].value)]_vars

\* fromVariant has returned false for the enumeration property, holding the
\* value of "T", given the name "X" that the enumeration does not have.
C6_Witness ==
    /\ lastCall.op = "fromVariant"
    /\ lastCall.property = "pEnum"
    /\ lastCall.variant = VString(<<"X">>)
    /\ \A i \in 1..Len(enumeration("pEnum")) : enumeration("pEnum")[i].name # <<"X">>
    /\ ~lastCall.ret
    /\ value["pEnum"] = 2

\* C7 as stated: after saveAs(store, fnExclude) the store has no entry at the
\* path of any setting whose property the exclude predicate matches.
C7_ExcludedAbsentAfterSave ==
    (lastCall.op = "saveAs" /\ lastCall.target = "store") =>
        \A st \in Settings :
            Matched(lastCall.fnExclude, st.property) => PathOf(st) \notin DOMAIN store

\* The paths saveAs(target, fnExclude) may write: those of the settings the
\* predicate does not match.
SavedPaths(target, fnExclude) ==
    IF target = Null THEN {}
    ELSE {PathOf(st) : st \in {x \in Settings : ~Matched(fnExclude, x.property)}}

\* C7 amended: saveAs writes nothing for an excluded setting and removes
\* nothing.  Every path that is not the path of a setting the predicate lets
\* through has after the save the entry it had before, and is absent after
\* the save if it was absent before.
C7_ExcludedNotWritten ==
    [][lastCall'.op = "saveAs" =>
          \A path \in (DOMAIN store) \cup (DOMAIN store') :
              path \notin SavedPaths(lastCall'.target, lastCall'.fnExclude)
                  => /\ path \in DOMAIN store
                     /\ path \in DOMAIN store'
                     /\ store'[path] = store[path]]_vars

\* saveAs has run with a predicate that matches a registered property: that
\* setting's path is absent from the store, another setting's path is in it.
C7_Witness ==
    /\ lastCall.op = "saveAs"
    /\ lastCall.target = "store"
    /\ \E st \in Settings :
          /\ Matched(lastCall.fnExclude, st.property)
          /\ PathOf(st) \notin DOMAIN store
    /\ \E st \in Settings :
          /\ ~Matched(lastCall.fnExclude, st.property)
          /\ PathOf(st) \in DOMAIN store

\* C8: load exclusion.  Every property the exclude predicate matches has after
\* loadFrom(store, fnExclude) the value it had before, whatever the store holds
\* at its path.
C8_ExcludedKeptByLoad ==
    [][lastCall'.op = "loadFrom" =>
          \A p \in AllProps :
              Matched(lastCall'.fnExclude, p) => value'[p] = value[p]]_vars

\* loadFrom has run with a predicate that matches a registered property whose
\* path holds a variant that converts to another value than the property has,
\* while a setting the predicate does not match has an entry too.
C8_Witness ==
    /\ lastCall.op = "loadFrom"
    /\ \E st \in Settings :
          /\ Matched(lastCall.fnExclude, st.property)
          /\ PathOf(st) \in DOMAIN store
          /\ LET r == fromVariant(st.property, value[st.property], store[PathOf(st)])
             IN  r.ok /\ r.value # value[st.property]
    /\ \E st \in Settings :
          /\ ~Matched(lastCall.fnExclude, st.property)
          /\ PathOf(st) \in DOMAIN store

Occurrences(seq, x) == Cardinality({k \in 1..Len(seq) : seq[k] = x})

\* C9: resetGroup(g) calls the reset functions registered for g or for a
\* section of g, once for each registration, and no other.  addResetFunction
\* for group g or for a section of g adds one entry bound to group g (none for
\* a null function), nothing else changes the registrations, and the calls
\* resetGroup(g) makes are, function by function, as many as the entries bound
\* to group g.
C9_ResetGroupCallsItsOwn ==
    [][/\ lastCall'.op = "addResetFunction" =>
            IF lastCall'.fn = Null
            THEN m_vecSectionResetFn' = m_vecSectionResetFn
            ELSE /\ Len(m_vecSectionResetFn') = Len(m_vecSectionResetFn) + 1
                 /\ SubSeq(m_vecSectionResetFn', 1, Len(m_vecSectionResetFn))
                        = m_vecSectionResetFn
                 /\ LET last == m_vecSectionResetFn'[Len(m_vecSectionResetFn')]
                    IN  /\ last.fnReset = lastCall'.fn
                        /\ last.sectionId.group = lastCall'.group
       /\ lastCall'.op # "addResetFunction" => m_vecSectionResetFn' = m_vecSectionResetFn
       /\ lastCall'.op = "resetGroup" =>
            \A fn \in ResetFunctions :
                Occurrences(lastCall'.calls, fn) =
                    Cardinality({i \in 1..Len(m_vecSectionResetFn) :
                                    /\ m_vecSectionResetFn[i].fnReset = fn
                                    /\ m_vecSectionResetFn[i].sectionId.group
                                           = lastCall'.group})]_vars

\* resetGroup(0) has called the one function registered for the second section
\* of group 0 and not the one registered for group 1.
C9_Witness ==
    /\ lastCall.op = "resetGroup"
    /\ lastCall.group = 0
    /\ Len(m_vecGroup) = 2
    /\ Len(m_vecSectionResetFn) = 2
    /\ \E i, j \in 1..2 :
          /\ m_vecSectionResetFn[i].sectionId = [group |-> 0, section |-> 1]
          /\ m_vecSectionResetFn[j].sectionId.group = 1
          /\ m_vecSectionResetFn[i].fnReset # m_vecSectionResetFn[j].fnReset
          /\ lastCall.calls = <<m_vecSectionResetFn[i].fnReset>>

\* A path cut at its slashes.
RECURSIVE SplitPath(_)
SplitPath(path) ==
    IF \E i \in 1..Len(path) : path[i] = "/"
    THEN LET i == CHOOSE k \in 1..Len(path) :
                      path[k] = "/" /\ \A j \in 1..(k - 1) : path[j] # "/"
         IN  <<SubSeq(path, 1, i - 1)>> \o SplitPath(SubSeq(path, i + 1, Len(path)))
    ELSE <<path>>

\* C10: path scheme.  The path of every setting has exactly three segments,
\* none of them empty, and the section segment of a setting added by
\* addSetting(property, group) is the identifier of the group's default
\* section, which is not empty.
C10_ThreeNonEmptySegments ==
    /\ \A st \in Settings :
          LET segments == SplitPath(PathOf(st))
          IN  /\ Len(segments) = 3
              /\ \A k \in 1..Len(segments) : segments[k] # <<>>
    /\ \A st \in Settings :
          st.index.section = 0 =>
              LET sectionDefault == m_vecGroup[st.index.group + 1].vecSection[1]
              IN  /\ sectionDefault.identifier.key # <<>>
                  /\ SplitPath(PathOf(st))[2] = sectionDefault.identifier.key

\* C11: valid identifiers.  The identifier of every group and of every section
\* of the tree is neither empty nor made of whitespace only.
C11_IdentifiersValid ==
    \A i \in 1..Len(m_vecGroup) :
        /\ isValidIdentifier(m_vecGroup[i].identifier.key)
        /\ \A j \in 1..Len(m_vecGroup[i].vecSection) :
              isValidIdentifier(m_vecGroup[i].vecSection[j].identifier.key)

\* C12: section identifiers are unique among the sections of a group.  No
\* group has two sections with the same identifier key; addSection with an
\* identifier a sibling carries does not add a second one.
C12_SectionIdentifiersUnique ==
    \A i \in 1..Len(m_vecGroup) :
        \A j, k \in 1..Len(m_vecGroup[i].vecSection) :
            j # k => m_vecGroup[i].vecSection[j].identifier.key
                        # m_vecGroup[i].vecSection[k].identifier.key

\* C13: group identifiers are unique.  No two groups of the registry have the
\* same identifier key, whichever overloads of addGroup made them.
C13_GroupIdentifiersUnique ==
    \A i, j \in 1..Len(m_vecGroup) :
        i # j => m_vecGroup[i].identifier.key # m_vecGroup[j].identifier.key

\* addGroup has been called with the key of the first of two groups, a group
\* the TextId overload has given its context, and has returned its index.
C13_Witness ==
    /\ lastCall.op = "addGroup"
    /\ Len(m_vecGroup) = 2
    /\ lastCall.ret = 0
    /\ lastCall.key = m_vecGroup[1].identifier.key
    /\ m_vecGroup[1].identifier.trContext # <<>>
    /\ m_vecGroup[2].identifier.trContext = <<>>

\* C16: no public operation of the registry throws.  Every call, whatever
\* index it is given, returns instead of raising an exception.
C16_NoOperationThrows ==
    lastCall.op \notin {"construct", "terminate"} => ~lastCall.threw

\* The places (group, section, setting) of the tree whose setting references
\* property p.
PlacesOf(p) ==
    {i \in [group : 0..(Len(m_vecGroup) - 1),
            section : 0..AddedSections(m_vecGroup),
            setting : 0..(Len(AllSettings(m_vecGroup)) - 1)] :
        /\ SettingIndexIsValid(m_vecGroup, i)
        /\ m_vecGroup[i.group + 1].vecSection[i.section + 1].vecSetting[i.setting + 1] = p}

\* Place a is place b or comes before it in the order group, section, setting.
NotAfter(a, b) ==
    \/ a.group < b.group
    \/ a.group = b.group /\ a.section < b.section
    \/ a.group = b.group /\ a.section = b.section /\ a.setting <= b.setting

\* C17: findProperty(p) returns the first place, in the order group, section,
\* setting, whose setting references p, and the invalid index when there is
\* none; property() of a valid result is p.
C17_FindPropertyFirst ==
    lastCall.op = "findProperty" =>
        IF PlacesOf(lastCall.property) = {}
        THEN lastCall.ret = InvalidSettingIndex
        ELSE /\ lastCall.ret \in PlacesOf(lastCall.property)
             /\ \A place \in PlacesOf(lastCall.property) : NotAfter(lastCall.ret, place)
             /\ propertyAt(m_vecGroup, lastCall.ret) = lastCall.property

\* findProperty has been called for a property registered in two sections,
\* neither of them the first of the group, and has returned the place in the
\* earlier one.
C17_Witness ==
    /\ lastCall.op = "findProperty"
    /\ \E a, b \in PlacesOf(lastCall.property) :
          /\ 0 < a.section
          /\ a.section < b.section
          /\ lastCall.ret = a

\* The variants loadFrom(store, fn) reads for property p: those at the paths
\* of the settings of p that fn does not match, in the order of the tree.
VariantsFor(p, fn) ==
    LET all == AllSettings(m_vecGroup)
        Read(st) == st.property = p /\ ~Matched(fn, p) /\ PathOf(st) \in DOMAIN store
        read == SelectSeq(all, Read)
    IN  [k \in 1..Len(read) |-> store[PathOf(read[k])]]

\* Property p after each of the variants has been converted into it in turn,
\* a failed conversion leaving it as it was.
RECURSIVE ConvertEach(_, _, _)
ConvertEach(p, variants, cur) ==
    IF variants = <<>> THEN cur
    ELSE ConvertEach(p, Tail(variants), fromVariant(p, cur, Head(variants)).value)

\* C14: load is best-effort per setting.  loadFrom converts the store's entry
\* of every setting that is not excluded and whose path the store contains,
\* whether or not the conversion of another setting, earlier or later in the
\* tree, fails: each property ends with what its own entries convert to.
C14_LoadBestEffort ==
    [][lastCall'.op = "loadFrom" =>
          \A p \in AllProps :
              value'[p] = ConvertEach(p, VariantsFor(p, lastCall'.fnExclude), value[p])]_vars

\* loadFrom has run over three settings with entries in the store: the
\* conversion of the middle one fails, the first and the last have the values
\* their entries convert to, values other than their defaults.
C14_Witness ==
    /\ lastCall.op = "loadFrom"
    /\ ~lastCall.fnExclude.callable
    /\ LET all == AllSettings(m_vecGroup)
       IN  /\ Len(all) = 3
           /\ \A k \in 1..3 : PathOf(all[k]) \in DOMAIN store
           /\ \A j, k \in 1..3 : j # k => PathOf(all[j]) # PathOf(all[k])
           /\ ~fromVariant(all[2].property, value[all[2].property],
                           store[PathOf(all[2])]).ok
           /\ \A k \in {1, 3} :
                 LET r == fromVariant(all[k].property, value[all[k].property],
                                      store[PathOf(all[k])])
                 IN  /\ r.ok
                     /\ r.value = value[all[k].property]
                     /\ value[all[k].property] # DefaultValue(all[k].property)

\* The kinds toVariant and fromVariant have no conversion for.
UnsupportedKinds == {"PropertyCheckState", "PropertyOccPnt", "PropertyOccTrsf"}

\* C15: kinds without a conversion persist as a no-op.  saveAs leaves the
\* store, at the path of a setting of such a kind, as it was (no new entry, no
\* changed entry), and loadFrom leaves the value of a property of such a kind
\* as it was.
C15_UnsupportedKindsNoOp ==
    [][/\ lastCall'.op = "saveAs" =>
            \A st \in Settings :
                PropKind(st.property) \in UnsupportedKinds =>
                    /\ (PathOf(st) \in DOMAIN store') = (PathOf(st) \in DOMAIN store)
                    /\ PathOf(st) \in DOMAIN store => store'[PathOf(st)] = store[PathOf(st)]
       /\ lastCall'.op = "loadFrom" =>
            \A p \in AllProps :
                PropKind(p) \in UnsupportedKinds => value'[p] = value[p]]_vars

\* The step is fromVariant(p, toVariant(p)) for a property p of one of the
\* kinds given.
IsRoundTripOf(kinds, p) ==
    /\ lastCall'.op = "fromVariant"
    /\ lastCall'.property = p
    /\ PropKind(p) \in kinds
    /\ lastCall'.variant = toVariant(p, value[p])

IsEmitted(entry) == entry.kind = "emit"

EmittedBy(trace) == SelectSeq(trace, IsEmitted)

\* C19: the registry forwards every notification.  onPropertyChanged(p) emits
\* changed(p) once and nothing else, onPropertyEnabled(p, on) emits
\* enabled(p, on) once and nothing else, with the same property and flag,
\* within the hook and after the hook of PropertyGroup has been called.
C19_NotificationsForwarded ==
    /\ lastCall.op = "onPropertyChanged" =>
          /\ EmittedBy(lastCall.trace) = <<Emitted("changed", lastCall.args)>>
          /\ \E i, j \in 1..Len(lastCall.trace) :
                /\ i < j
                /\ lastCall.trace[i] = Called("PropertyGroup::onPropertyChanged", lastCall.args)
                /\ IsEmitted(lastCall.trace[j])
    /\ lastCall.op = "onPropertyEnabled" =>
          /\ EmittedBy(lastCall.trace) = <<Emitted("enabled", lastCall.args)>>
          /\ \E i, j \in 1..Len(lastCall.trace) :
                /\ i < j
                /\ lastCall.trace[i] = Called("PropertyGroup::onPropertyEnabled", lastCall.args)
                /\ IsEmitted(lastCall.trace[j])

\* onPropertyEnabled(pEnum, false) has run after a conversion changed the
\* property, and has emitted enabled(pEnum, false).
C19_Witness ==
    /\ lastCall.op = "onPropertyEnabled"
    /\ lastCall.args = <<"pEnum", FALSE>>
    /\ EmittedBy(lastCall.trace) = <<Emitted("enabled", <<"pEnum", FALSE>>)>>
    /\ nCalls = 1
    /\ value["pEnum"] = 1

\* C20: restoreDefaults resets every property of the glTF writer group.
\* Whatever the values before, after restoreDefaults the four properties
\* coordinatesConverter, transformationFormat, format and forceExportUV have
\* the values of a default-constructed Parameters and metaDatas is empty; a
\* second restoreDefaults changes nothing.
C20_RestoreDefaults ==
    [][lastCall'.op = "restoreDefaults" =>
          /\ \A p \in GltfProps \ {"metaDatas"} : value'[p] = Parameters[p]
          /\ value'.metaDatas = <<>>
          /\ lastCall.op = "restoreDefaults" => value' = value]_vars

\* restoreDefaults has run on a group none of whose properties had its
\* default.
C20_Witness ==
    /\ lastCall.op = "restoreDefaults"
    /\ \A p \in GltfProps : lastCall.before[p] # Parameters[p]
    /\ \A p \in GltfProps : value[p] = Parameters[p]


\* The reset functions of the entries bound to a section the test accepts, in
\* the order of the entries.
FunctionsBound(vecFn, Bound(_)) ==
    LET entries == SelectSeq(vecFn, LAMBDA e : Bound(e.sectionId))
    IN  [i \in 1..Len(entries) |-> entries[i].fnReset]

SectionsKept(vec, after) ==
    /\ Len(vec) <= Len(after)
    /\ \A i \in 1..Len(vec) :
          /\ Len(vec[i].vecSection) <= Len(after[i].vecSection)
          /\ \A j \in 1..Len(vec[i].vecSection) :
                LET old == vec[i].vecSection[j]
                    new == after[i].vecSection[j]
                IN  /\ new.identifier = old.identifier
                    /\ new.isDefault = old.isDefault
                    /\ Len(old.vecSetting) <= Len(new.vecSetting)
                    /\ SubSeq(new.vecSetting, 1, Len(old.vecSetting)) = old.vecSetting

\* C22: addSetting(property, group), for the index of a group that exists,
\* appends the property as the last setting of section 0 of the group,
\* returns the index of that setting, and changes
\* nothing else of the tree: no group gets, loses or reorders sections, and
\* the registered reset functions keep their section indices.  In every step
\* of every operation the sections that exist stay at their positions, so a
\* section index returned earlier designates the same section afterwards.
C22_AddSettingKeepsSections ==
    [][/\ (lastCall'.op = "addSettingToGroup" /\ ~lastCall'.threw) =>
            LET g == lastCall'.group + 1
                before == m_vecGroup[g].vecSection[1].vecSetting
            IN  /\ m_vecGroup' =
                       [m_vecGroup EXCEPT ![g].vecSection[1].vecSetting =
                                             Append(before, lastCall'.property)]
                /\ lastCall'.ret = [group |-> lastCall'.group, section |-> 0,
                                    setting |-> Len(before)]
                /\ m_vecSectionResetFn' = m_vecSectionResetFn
       /\ SectionsKept(m_vecGroup, m_vecGroup')]_vars

\* addSetting(property, group) has added a second setting to the default
\* section of a group that has a section added by addSection.
C22_Witness ==
    /\ lastCall.op = "addSettingToGroup"
    /\ ~lastCall.threw
    /\ Len(m_vecGroup[lastCall.group + 1].vecSection) = 2
    /\ lastCall.ret = [group |-> lastCall.group, section |-> 0, setting |-> 1]

\* C23: persistence leaves alone what is not its own.  loadFrom changes
\* neither the store nor the groups, sections, settings and reset functions,
\* and a property has another value after it only if a setting holds that
\* property, the predicate does not match it, and the store has an entry at
\* the setting's path.  saveAs changes no property value and nothing of the
\* tree, removes no entry, adds or changes entries only at paths of settings
\* the predicate does not match, and with a null target changes nothing.
C23_PersistenceFrame ==
    [][/\ lastCall'.op = "loadFrom" =>
            /\ UNCHANGED <<store, m_vecGroup, m_vecSectionResetFn>>
            /\ \A p \in AllProps :
                  value'[p] # value[p] =>
                      \E st \in Settings :
                          /\ st.property = p
                          /\ ~Matched(lastCall'.fnExclude, p)
                          /\ PathOf(st) \in DOMAIN store
       /\ lastCall'.op = "saveAs" =>
            /\ UNCHANGED <<value, m_vecGroup, m_vecSectionResetFn>>
            /\ DOMAIN store \subseteq DOMAIN store'
            /\ \A path \in DOMAIN store' :
                  (path \notin DOMAIN store \/ store'[path] # store[path]) =>
                      \E st \in Settings :
                          /\ PathOf(st) = path
                          /\ ~Matched(lastCall'.fnExclude, st.property)
            /\ lastCall'.target = Null => store' = store]_vars

\* loadFrom has run on a group with a reset function and two settings: the
\* store has an entry for one, and the other, which has none, holds a value
\* that is not its default.
C23_Witness ==
    /\ lastCall.op = "loadFrom"
    /\ Len(m_vecSectionResetFn) = 1
    /\ \E a, b \in Settings :
          /\ PathOf(a) \in DOMAIN store
          /\ PathOf(b) \notin DOMAIN store
          /\ value[b.property] # DefaultValue(b.property)

\* The setting at a valid index, as the loops of loadFrom and saveAs see it.
SettingAt(index) == CHOOSE st \in Settings : st.index = index

\* C24: loadPropertyFrom(store, index) is loadFrom for one setting.  For a
\* valid index it reads the store at the path loadFrom and saveAs compute for
\* the setting (the property is as it was when the store has no entry there,
\* and holds what the entry converts to otherwise), it leaves the property of
\* the setting with the value loadFrom(store) without a predicate would give
\* it, and it leaves every other property as it was.
C24_LoadPropertyAsLoadFrom ==
    [][(lastCall'.op = "loadPropertyFrom" /\ ~lastCall'.threw) =>
          LET st == SettingAt(lastCall'.index)
              p == st.property
          IN  /\ value'[p] =
                     IF PathOf(st) \in DOMAIN store
                     THEN fromVariant(p, value[p], store[PathOf(st)]).value
                     ELSE value[p]
              /\ value'[p] = loadFrom(m_vecGroup, store, NoPredicate, value)[p]
              /\ \A q \in AllProps \ {p} : value'[q] = value[q]]_vars

====
